---------------------------- MODULE Spec2Model ----------------------------
(***************************************************************************)
(* A model of core/bright_lights.py (EQcorrscan): the travel-time grid     *)
(* preparation (_resample_grid, _rm_similarlags), the per-node energy      *)
(* stack (_node_loop), the out-of-core reduction (_cum_net_resp and the    *)
(* driver in brightness), the detection / template stage, and _read_tt.    *)
(*                                                                         *)
(* Python lists and numpy arrays are TLA+ sequences; the code's 0-based    *)
(* index i is position i+1 of the sequence (operator At).                  *)
(***************************************************************************)
EXTENDS Integers, Sequences, FiniteSets, TLC

VARIABLES
    pc,         \* control state of the operation being exercised
    stations,   \* list of station names
    nodes,      \* list of grid nodes, each <<lat, lon, depth>>
    lags,       \* lags[s][n]: delay of station s to node n
    args,       \* arguments of the last grid call (its input grid)
    threshold,  \* threshold of the last _rm_similarlags call
    stream,     \* the waveform set: a list of traces [station, data]
    node_lags,  \* lags[:, i], the lag of every station for the node stacked
    ret,        \* what the last _node_loop call returned
    energy,     \* energy[n]: the energy trace stacked for node n
    cores,      \* brightdef.cores, the configured core budget
    cpu_count,  \* multiprocessing.cpu_count()
    num_cores,  \* the pool size brightness settles on
    indeces,    \* the node index lists built for the reduction workers
    results,    \* results[k]: what reduction task k returned or raised
    cum_net_resp,   \* the cumulative network response
    peak_idx,   \* per sample, the index into nodes that peak_nodes is read from
    task,       \* task[n]: the state of the _node_loop task of node n
    scratch,    \* scratch[n]: the file tmp<instance>/node_<n>.npy
    worker,     \* worker[k]: the state of the _cum_net_resp task of list k
    hist,       \* hist[n]: who loaded and who removed slot n in this run
    realstations,   \* the station list brightness hands to _find_detections
    detections, \* the DETECTION objects of the run
    coherant,   \* per converted detection, whether its template was coherent
    templates,  \* the templates brightness returns
    nodesout,   \* the nodes brightness returns
    path,       \* the travel-time directory: file name -> travel times
    phase,      \* the phase of the travel-time files to read
    phaseout,   \* the phase the lags are wanted in
    gridfiles,  \* the files _read_tt found for the requested stations
    stations_out,   \* the stations _read_tt returns
    allnodes,   \* the nodes _read_tt returns
    alllags     \* the lag rows _read_tt has read, or "unbound"

gridVars == <<nodes, lags, args, threshold>>
stackVars == <<stream, node_lags, ret>>
reduceVars == <<energy, cores, cpu_count, num_cores, indeces, results, cum_net_resp, peak_idx>>

poolVars == <<task, scratch, worker, hist>>

detectVars == <<realstations, detections, coherant, templates, nodesout>>
readVars == <<path, phase, phaseout, gridfiles, stations_out, allnodes, alllags>>

vars == <<pc, stations, gridVars, stackVars, reduceVars, poolVars, detectVars, readVars>>

-----------------------------------------------------------------------------
(* Bounds of the model *)

MaxNodes == 3
MaxPoolNodes == 4
MaxTraces == 2
MaxEnergyNodes == 4
MaxCores == 4
SampLen == 2

LagValues == {0, 1, 2}
ThresholdValues == {0, 1, 2}
DepthBounds == {-1, 1, 3}
GridStations == <<"WVZ", "FOZ">>

-----------------------------------------------------------------------------
(* numpy / list helpers *)

At(s, i) == s[i + 1]

Abs(x) == IF x < 0 THEN -x ELSE x

Min2(a, b) == IF a < b THEN a ELSE b

RECURSIVE SumSeq(_)
SumSeq(s) == IF Len(s) = 0 THEN 0 ELSE Head(s) + SumSeq(Tail(s))

RECURSIVE Concat(_)
Concat(ss) == IF Len(ss) = 0 THEN <<>> ELSE Head(ss) \o Concat(Tail(ss))

\* range(a, b)
Range(a, b) == [k \in 1..(IF b > a THEN b - a ELSE 0) |-> a + k - 1]

\* lags[:, i]
Col(m, i) == [s \in 1..Len(m) |-> At(m[s], i)]

\* m.T for an array of shape (r, c)
Transpose(m, r, c) == [b \in 1..c |-> [a \in 1..r |-> m[a][b]]]

\* np.reshape(flat, (r, c)), row-major
Reshape(flat, r, c) == [a \in 1..r |-> [b \in 1..c |-> flat[(a - 1) * c + b]]]

\* seq[index_list]
Select(s, idx) == [k \in 1..Len(idx) |-> At(s, idx[k])]

-----------------------------------------------------------------------------
(* The parts of the state an operation does not use *)

NoArgs == [nodes |-> <<>>, lags |-> <<>>]

NoRet == [status |-> "none"]

GridIdle == nodes = <<>> /\ lags = <<>> /\ args = NoArgs /\ threshold = 0

StackIdle == stream = <<>> /\ node_lags = <<>> /\ ret = NoRet

ReduceIdle ==
    /\ energy = <<>> /\ cores = 0 /\ cpu_count = 0 /\ num_cores = 0
    /\ indeces = <<>> /\ results = <<>> /\ cum_net_resp = <<>> /\ peak_idx = <<>>

PoolIdle == task = <<>> /\ scratch = <<>> /\ worker = <<>> /\ hist = <<>>

DetectIdle ==
    /\ realstations = <<>> /\ detections = <<>> /\ coherant = <<>>
    /\ templates = <<>> /\ nodesout = <<>>

ReadIdle ==
    /\ path = <<>> /\ phase = "" /\ phaseout = ""
    /\ gridfiles = <<>> /\ stations_out = <<>> /\ allnodes = <<>> /\ alllags = <<>>

\* a grid of n distinct nodes
GridNodes(n) == [i \in 1..n |-> <<(i - 1) \div 2, (i - 1) % 2, (i - 1) % 3>>]

-----------------------------------------------------------------------------
(* _resample_grid *)

\* the loop of lines 158-163: indices of the nodes inside the volume
KeptByVolume(nds, mindepth, maxdepth, corners) ==
    LET RECURSIVE Loop(_, _)
        Loop(i, acc) ==
            IF i >= Len(nds) THEN acc
            ELSE IF mindepth < At(nds, i)[3] /\ At(nds, i)[3] < maxdepth
                    /\ <<At(nds, i)[1], At(nds, i)[2]>> \in corners
                 THEN Loop(i + 1, Append(acc, i))
                 ELSE Loop(i + 1, acc)
    IN Loop(0, <<>>)

\* resamp_lags after the loop: one [lags[:, i]] per kept node, as numpy lays
\* the nested list out in memory (shape (K, 1, S), row-major)
ResampFlat(lgs, kept) == Concat([k \in 1..Len(kept) |-> Col(lgs, kept[k])])

ReshapeNoTranspose(flat, nkept, nsta) == Reshape(flat, nsta, nkept)

\* line 166: np.reshape(resamp_lags, (len(resamp_lags), len(stations))).T
ReshapeLags(flat, nkept, nsta) == Transpose(Reshape(flat, nkept, nsta), nkept, nsta)

ResampleGrid(sta, nds, lgs, mindepth, maxdepth, corners) ==
    LET kept == KeptByVolume(nds, mindepth, maxdepth, corners)
    IN [nodes |-> Select(nds, kept),
        lags  |-> ReshapeLags(ResampFlat(lgs, kept), Len(kept), Len(sta))]

-----------------------------------------------------------------------------
(* _rm_similarlags *)

\* abs((lags.T - lags.T[i]).sum(axis=1).reshape(1, len(nodes))) > threshold
NetDifRow(lgs, n, i, thr) ==
    [k \in 1..n |->
        Abs(SumSeq([s \in 1..Len(lgs) |-> lgs[s][k] - At(lgs[s], i)])) > thr]

\* lines 201-205: the row of node 0, then one more row per node 0..n-1
NetDif(lgs, n, thr) ==
    <<NetDifRow(lgs, n, 0, thr)>> \o [r \in 1..n |-> NetDifRow(lgs, n, r - 1, thr)]

\* lines 208-215
NodeIndeces(lgs, n, thr) ==
    LET netdif == NetDif(lgs, n, thr)
        RECURSIVE Loop(_, _)
        Loop(i, node_indeces) ==
            IF i >= n THEN node_indeces
            ELSE IF \A k \in 1..Len(node_indeces) :
                        At(At(netdif, i), node_indeces[k])
                 THEN Loop(i + 1, Append(node_indeces, i))
                 ELSE Loop(i + 1, node_indeces)
    IN Loop(1, <<0>>)

\* line 216: lags.T[node_indeces].T
LagsOut(lgs, node_indeces) ==
    LET n  == Len(node_indeces)
        lt == [k \in 1..n |-> Col(lgs, node_indeces[k])]
    IN Transpose(lt, n, Len(lgs))

RmSimilarlags(sta, nds, lgs, thr) ==
    LET node_indeces == NodeIndeces(lgs, Len(nds), thr)
    IN [nodes |-> Select(nds, node_indeces),
        lags  |-> LagsOut(lgs, node_indeces)]

-----------------------------------------------------------------------------
(* _node_loop *)

\* line 234: j = [k for k in xrange(len(stations)) if stations[k] == tr.stats.station]
MatchingStations(sta, tr) ==
    LET RECURSIVE Loop(_, _)
        Loop(k, j) ==
            IF k >= Len(sta) THEN j
            ELSE IF At(sta, k) = tr.station THEN Loop(k + 1, Append(j, k))
                 ELSE Loop(k + 1, j)
    IN Loop(0, <<>>)

StationIndexLast(j) == At(j, Len(j) - 1)

\* lines 236-238 and 242: the station whose lag is used, j[0]
StationIndex(j) == At(j, 0)

\* line 243: int(round(lag * sampling_rate)), lags being whole seconds
PadLen(lag, sampling_rate) == lag * sampling_rate

\* line 244: np.square(np.concatenate((tr.data, pad)))[len(pad):]
LaggedEnergy(data, pad) ==
    LET padded == data \o [k \in 1..pad |-> 0]
    IN [t \in 1..Len(data) |-> padded[t + pad] * padded[t + pad]]

\* line 246: np.clip(e, 0, clip_level * np.mean(e)), every value scaled by
\* len(e) to stay in the integers
ClipScaled(e, clip_level) ==
    [t \in 1..Len(e) |-> Min2(e[t] * Len(e), clip_level * SumSeq(e))]

\* lines 248-250: e / sqrt(mean(square(e))), kept as the numerator vector and
\* the sum of squares under the root (the quotient is scale invariant)
Normalized(e) == [num |-> e, sumsq |-> SumSeq([t \in 1..Len(e) |-> e[t] * e[t]]), n |-> Len(e)]

\* lines 233-253: the rows of `energy` before np.sum adds them, one per trace
\* that was stacked; no row at all leaves `energy` unbound at line 253
NodeLoop(sta, lgs, strm, clip_level) ==
    LET RECURSIVE Loop(_, _)
        Loop(t, stack) ==
            IF t > Len(strm) THEN stack
            ELSE LET j == MatchingStations(sta, strm[t])
                 IN IF Len(j) = 0 THEN Loop(t + 1, stack)
                    ELSE LET lag == At(lgs, StationIndex(j))
                             pad == PadLen(lag, strm[t].sampling_rate)
                             e   == ClipScaled(LaggedEnergy(strm[t].data, pad), clip_level)
                         IN Loop(t + 1, Append(stack,
                                [trace |-> t - 1, station |-> StationIndex(j),
                                 env |-> Normalized(e)]))
        rows == Loop(1, <<>>)
    IN IF Len(rows) = 0 THEN [status |-> "UnboundLocalError"]
       ELSE [status |-> "ok", energy |-> rows]

StackNames == {"WVZ", "FOZ"}
StreamNames == {"WVZ", "FOZ", "GCSZ"}
DataValues == {<<1, 3, 0>>, <<0, 2, 1>>}
ClipLevels == {1, 2}

Traces == [station : StreamNames, data : DataValues, sampling_rate : {1}]

SeqsUpTo(S, n) == UNION {[1..k -> S] : k \in 0..n}

InitStack ==
    /\ pc = "stack"
    /\ stations \in SeqsUpTo(StackNames, 2) \ {<<>>}
    /\ node_lags \in [1..Len(stations) -> LagValues]
    /\ stream \in SeqsUpTo(Traces, MaxTraces)
    /\ ret = NoRet
    /\ GridIdle
    /\ ReduceIdle
    /\ PoolIdle
    /\ DetectIdle
    /\ ReadIdle

CallNodeLoop ==
    /\ pc = "stack"
    /\ \E clip_level \in ClipLevels :
          ret' = NodeLoop(stations, node_lags, stream, clip_level)
    /\ pc' = "stacked"
    /\ UNCHANGED <<stations, stream, node_lags, gridVars, reduceVars, poolVars, detectVars, readVars>>

NextStack == CallNodeLoop

SpecStack == InitStack /\ [][NextStack]_vars

-----------------------------------------------------------------------------
(* The cumulative network response: _cum_net_resp and the driver *)

\* np.argmax of a column: the 0-based position of the first maximum
ArgMax(col) ==
    (CHOOSE i \in 1..Len(col) :
        /\ \A j \in 1..Len(col) : col[j] <= col[i]
        /\ \A j \in 1..(i - 1) : col[j] < col[i]) - 1

\* lines 271 and 273: the first node of the list seeds the running maximum
FoldFirst(node_energy, first) ==
    [cum_net_resp |-> node_energy,
     indeces      |-> [t \in 1..Len(node_energy) |-> first]]

\* lines 281-282: updated_indeces[updated_indeces==1]=i; indeces=updated_indeces
UpdateOwner(acc, updated_indeces, i) ==
    [t \in 1..Len(updated_indeces) |->
        IF updated_indeces[t] = 1 THEN i ELSE updated_indeces[t]]

\* lines 275-282: one pass of the loop, for node i
FoldNext(acc, node_energy, i) ==
    LET updated_indeces ==
            [t \in 1..Len(node_energy) |-> ArgMax(<<acc.cum_net_resp[t], node_energy[t]>>)]
        temp == <<acc.cum_net_resp, node_energy>>
    IN [cum_net_resp |-> [t \in 1..Len(node_energy) |-> At(temp, updated_indeces[t])[t]],
        indeces      |-> UpdateOwner(acc, updated_indeces, i)]

\* _cum_net_resp over slots that all exist (slot[n] is the saved trace of node n)
CumNetResp(node_lis, slot) ==
    LET RECURSIVE Loop(_, _)
        Loop(k, acc) ==
            IF k > Len(node_lis) THEN acc
            ELSE Loop(k + 1, FoldNext(acc, At(slot, node_lis[k]), node_lis[k]))
    IN IF Len(node_lis) = 0 THEN [status |-> "IndexError"]
       ELSE LET r == Loop(2, FoldFirst(At(slot, node_lis[1]), node_lis[1]))
            IN [status |-> "ok", cum_net_resp |-> r.cum_net_resp, indeces |-> r.indeces]

\* lines 447-451
NumCores(brightdef_cores, nnodes, ncpu) ==
    LET c1 == IF brightdef_cores > nnodes THEN nnodes ELSE brightdef_cores
    IN IF c1 > ncpu THEN ncpu ELSE c1

\* the value of i when line 480 is reached: the list comprehension of lines
\* 453-456 leaves its loop variable bound to the last node index
LeakedIndex(nnodes) == nnodes - 1

\* lines 480-484
NodeSplitIndeces(nnodes, ncores) ==
    LET node_splits == nnodes \div ncores
        middle == [i \in 1..(ncores - 2) |-> Range(node_splits * i, node_splits * (i + 1))]
        i_end == IF ncores - 2 >= 1 THEN ncores - 2 ELSE LeakedIndex(nnodes)
    IN <<Range(0, node_splits)>> \o middle
          \o <<Range(node_splits * (i_end + 1), nnodes)>>

\* lines 491-501
DriverFold(res) ==
    LET responses == [k \in 1..Len(res) |-> res[k].cum_net_resp]
        node_indeces == [k \in 1..Len(res) |-> res[k].indeces]
        nsamp == Len(responses[1])
        idx == [j \in 1..nsamp |-> ArgMax([k \in 1..Len(res) |-> responses[k][j]])]
    IN [cum_net_resp |-> [j \in 1..nsamp |-> At(responses, idx[j])[j]],
        peak_idx     |-> [j \in 1..nsamp |-> At(node_indeces, idx[j])[j]]]

\* lines 470-476, the in-memory branch
InMemory(en) ==
    LET nsamp == Len(en[1])
        idx == [j \in 1..nsamp |-> ArgMax([n \in 1..Len(en) |-> en[n][j]])]
    IN [cum_net_resp |-> [j \in 1..nsamp |-> At(en, idx[j])[j]],
        peak_idx     |-> idx]

EnergyValues == {0, 1}
EnergyTraces == [1..SampLen -> EnergyValues]

InitReduce ==
    /\ pc = "stacked_all"
    /\ \E n \in 1..MaxEnergyNodes : energy \in [1..n -> EnergyTraces]
    /\ cores \in 1..MaxCores
    /\ cpu_count \in 1..MaxCores
    /\ num_cores = 0
    /\ indeces = <<>> /\ results = <<>> /\ cum_net_resp = <<>> /\ peak_idx = <<>>
    /\ stations = <<>>
    /\ GridIdle
    /\ StackIdle
    /\ PoolIdle
    /\ DetectIdle
    /\ ReadIdle

\* lines 447-451 and 480-485
SplitNodes ==
    /\ pc = "stacked_all"
    /\ num_cores' = NumCores(cores, Len(energy), cpu_count)
    /\ indeces' = NodeSplitIndeces(Len(energy), num_cores')
    /\ pc' = "reducing"
    /\ UNCHANGED <<energy, cores, cpu_count, results, cum_net_resp, peak_idx,
                   stations, gridVars, stackVars, poolVars, detectVars, readVars>>

\* lines 486-487: task k runs _cum_net_resp on indeces[k]
RunCumNetResp ==
    /\ pc = "reducing"
    /\ Len(results) < num_cores
    /\ results' = Append(results, CumNetResp(At(indeces, Len(results)), energy))
    /\ UNCHANGED <<pc, energy, cores, cpu_count, num_cores, indeces, cum_net_resp,
                   peak_idx, stations, gridVars, stackVars, poolVars, detectVars, readVars>>

\* line 489: p.get() re-raises what a task raised
GetRaises ==
    /\ pc = "reducing"
    /\ Len(results) = num_cores
    /\ \E k \in 1..Len(results) : results[k].status # "ok"
    /\ pc' = "raised"
    /\ UNCHANGED <<reduceVars, stations, gridVars, stackVars, poolVars, detectVars, readVars>>

\* lines 489-501
FoldResults ==
    /\ pc = "reducing"
    /\ Len(results) = num_cores
    /\ \A k \in 1..Len(results) : results[k].status = "ok"
    /\ LET r == DriverFold(results)
       IN /\ cum_net_resp' = r.cum_net_resp
          /\ peak_idx' = r.peak_idx
    /\ pc' = "reduced"
    /\ UNCHANGED <<energy, cores, cpu_count, num_cores, indeces, results,
                   stations, gridVars, stackVars, poolVars, detectVars, readVars>>

NextReduce == SplitNodes \/ RunCumNetResp \/ GetRaises \/ FoldResults

SpecReduce == InitReduce /\ [][NextReduce]_vars

-----------------------------------------------------------------------------
(* Properties of the reduction *)

\* C1: the out-of-core path gives at every sample the value and the owner
\* node of the in-memory argmax over all nodes: the maximum, owned by the
\* lowest node index attaining it.
C1_OutOfCoreEqualsInMemory ==
    pc = "reduced" =>
        /\ cum_net_resp = InMemory(energy).cum_net_resp
        /\ peak_idx = InMemory(energy).peak_idx

\* the index lists handed to the workers: indeces[0 .. num_cores-1]
WorkerLists == SubSeq(indeces, 1, num_cores)

\* C2: the index lists handed to the reduction workers are non-empty
\* contiguous ranges that contain every node index exactly once.
C2_ChunksPartitionNodes ==
    pc = "reducing" =>
        /\ \A k \in 1..num_cores :
              /\ Len(WorkerLists[k]) >= 1
              /\ \A p \in 1..(Len(WorkerLists[k]) - 1) :
                    WorkerLists[k][p + 1] = WorkerLists[k][p] + 1
        /\ Concat(WorkerLists) = Range(0, Len(energy))

-----------------------------------------------------------------------------
(* brightness, out of core (mem_issue = True): the stacking pool, the join, *)
(* the reduction pool and the driver, over the scratch directory            *)
(* tmp<instance>, which outlives a run                                      *)

NoFile == [exists |-> FALSE]

\* `fresh` records whether the file was written by the run in progress
File(data, fresh) == [exists |-> TRUE, data |-> data, fresh |-> fresh]

NoHist == [writes |-> <<>>, loads |-> <<>>, removes |-> <<>>]

\* the energy traces a stacking task may compute
PoolTraces == {[t \in 1..SampLen |-> t % 2], [t \in 1..SampLen |-> (t + 1) % 2]}

NumNodes == Len(nodes)

Running == {n \in 1..NumNodes : task[n] = "running"}

InitPool ==
    /\ pc = "idle"
    /\ stations = <<>>
    /\ \E n \in 1..MaxPoolNodes :
          /\ nodes = GridNodes(n)
          /\ task = [i \in 1..n |-> "none"]
          /\ scratch = [i \in 1..n |-> NoFile]
          /\ hist = [i \in 1..n |-> NoHist]
    /\ lags = <<>> /\ args = NoArgs /\ threshold = 0
    /\ worker = <<>>
    /\ energy = <<>> /\ cores = 0 /\ cpu_count = MaxCores /\ num_cores = 0
    /\ indeces = <<>> /\ results = <<>> /\ cum_net_resp = <<>> /\ peak_idx = <<>>
    /\ StackIdle
    /\ DetectIdle
    /\ ReadIdle

\* lines 418-456: a call of brightness; one task per node is queued on a pool
\* of num_cores processes. Files left in tmp<instance> by an earlier call are
\* still there.
StartRun ==
    /\ pc \in {"idle", "reduced", "raised"}
    /\ cores' \in 1..MaxCores
    /\ num_cores' = NumCores(cores', NumNodes, cpu_count)
    /\ task' = [n \in 1..NumNodes |-> "queued"]
    /\ scratch' = [n \in 1..NumNodes |->
                      IF scratch[n].exists THEN File(scratch[n].data, FALSE) ELSE NoFile]
    /\ hist' = [n \in 1..NumNodes |-> NoHist]
    /\ worker' = <<>>
    /\ indeces' = <<>> /\ results' = <<>> /\ cum_net_resp' = <<>> /\ peak_idx' = <<>>
    /\ pc' = "stacking"
    /\ UNCHANGED <<energy, cpu_count, stations, gridVars, stackVars, detectVars, readVars>>

\* a pool process takes the next queued task (apply_async queues in order)
TaskStart(n) ==
    /\ pc = "stacking"
    /\ task[n] = "queued"
    /\ \A m \in 1..(n - 1) : task[m] # "queued"
    /\ Cardinality(Running) < num_cores
    /\ task' = [task EXCEPT ![n] = "running"]
    /\ UNCHANGED <<pc, scratch, worker, hist, reduceVars, stations, gridVars, stackVars, detectVars, readVars>>

\* lines 257-258: _node_loop saves the stack of node n-1 to its slot
TaskSave(n) ==
    /\ pc = "stacking"
    /\ task[n] = "running"
    /\ \E e \in PoolTraces : scratch' = [scratch EXCEPT ![n] = File(e, TRUE)]
    /\ task' = [task EXCEPT ![n] = "saved"]
    /\ hist' = [hist EXCEPT ![n].writes = Append(@, n)]
    /\ UNCHANGED <<pc, worker, reduceVars, stations, gridVars, stackVars, detectVars, readVars>>

\* _node_loop raises before it saves; the AsyncResult keeps the exception
TaskFail(n) ==
    /\ pc = "stacking"
    /\ task[n] = "running"
    /\ task' = [task EXCEPT ![n] = "failed"]
    /\ UNCHANGED <<pc, scratch, worker, hist, reduceVars, stations, gridVars, stackVars, detectVars, readVars>>

NoBarrier == TRUE

\* line 467: pool.join() returns when every task has ended, one way or the other
StackingJoined == \A n \in 1..NumNodes : task[n] \in {"saved", "failed"}

\* lines 467 and 480-488: after the join, the lists are built and one
\* _cum_net_resp task per list is handed to a new pool
JoinStacking ==
    /\ pc = "stacking"
    /\ StackingJoined
    /\ indeces' = NodeSplitIndeces(NumNodes, num_cores)
    /\ worker' = [k \in 1..num_cores |-> [state |-> "ready", pos |-> 0]]
    /\ pc' = "reducing"
    /\ UNCHANGED <<task, scratch, hist, energy, cores, cpu_count, num_cores, results,
                   cum_net_resp, peak_idx, stations, gridVars, stackVars, detectVars, readVars>>

NodeList(k) == indeces[k]

\* lines 271 and 275-282: np.load of the next slot of the list, then the fold
WorkerLoad(k) ==
    /\ pc \in {"reducing", "raised"}
    /\ worker[k].state = "ready"
    /\ IF worker[k].pos >= Len(NodeList(k))
       THEN /\ worker' = [worker EXCEPT ![k] = [state |-> "IndexError", pos |-> worker[k].pos]]
            /\ UNCHANGED hist
       ELSE LET i == At(NodeList(k), worker[k].pos)
                slot == At(scratch, i)
            IN IF ~slot.exists
               THEN /\ worker' = [worker EXCEPT ![k] = [state |-> "IOError", pos |-> worker[k].pos]]
                    /\ UNCHANGED hist
               ELSE /\ worker' = [worker EXCEPT ![k] =
                          [state |-> "loaded", pos |-> worker[k].pos,
                           acc |-> IF worker[k].pos = 0 THEN FoldFirst(slot.data, i)
                                   ELSE FoldNext(worker[k].acc, slot.data, i)]]
                    /\ hist' = [hist EXCEPT ![i + 1].loads =
                                   Append(@, [worker |-> k, fresh |-> slot.fresh])]
    /\ UNCHANGED <<pc, task, scratch, reduceVars, stations, gridVars, stackVars, detectVars, readVars>>

\* lines 272 and 283: os.remove of the slot just folded in
WorkerRemove(k) ==
    /\ pc \in {"reducing", "raised"}
    /\ worker[k].state = "loaded"
    /\ LET i == At(NodeList(k), worker[k].pos)
       IN /\ scratch' = [scratch EXCEPT ![i + 1] = NoFile]
          /\ hist' = [hist EXCEPT ![i + 1].removes = Append(@, k)]
    /\ worker' = [worker EXCEPT ![k].pos = @ + 1,
                                ![k].state = IF worker[k].pos + 1 = Len(NodeList(k))
                                             THEN "done" ELSE "ready"]
    /\ UNCHANGED <<pc, task, reduceVars, stations, gridVars, stackVars, detectVars, readVars>>

WorkerFailed(k) == worker[k].state \in {"IndexError", "IOError"}

\* line 489: the p.get() calls run in list order; the first task that raised
\* makes brightness raise
PoolGetRaises ==
    /\ pc = "reducing"
    /\ \E k \in 1..num_cores :
          /\ WorkerFailed(k)
          /\ \A j \in 1..(k - 1) : worker[j].state = "done"
    /\ pc' = "raised"
    /\ UNCHANGED <<poolVars, reduceVars, stations, gridVars, stackVars, detectVars, readVars>>

\* lines 489-501
PoolFoldResults ==
    /\ pc = "reducing"
    /\ \A k \in 1..num_cores : worker[k].state = "done"
    /\ results' = [k \in 1..num_cores |->
                      [status |-> "ok", cum_net_resp |-> worker[k].acc.cum_net_resp,
                       indeces |-> worker[k].acc.indeces]]
    /\ LET r == DriverFold(results')
       IN /\ cum_net_resp' = r.cum_net_resp
          /\ peak_idx' = r.peak_idx
    /\ pc' = "reduced"
    /\ UNCHANGED <<poolVars, energy, cores, cpu_count, num_cores, indeces,
                   stations, gridVars, stackVars, detectVars, readVars>>

Next ==
    \/ StartRun
    \/ \E n \in 1..NumNodes : TaskStart(n) \/ TaskSave(n) \/ TaskFail(n)
    \/ JoinStacking
    \/ \E k \in 1..Len(worker) : WorkerLoad(k) \/ WorkerRemove(k)
    \/ PoolGetRaises
    \/ PoolFoldResults

Spec == InitPool /\ [][Next]_vars

-----------------------------------------------------------------------------
(* Properties of _cum_net_resp on one node list *)

\* the listed node whose saved trace is the first to attain the maximum at
\* sample t
FirstMaxNode(node_lis, slot, t) ==
    At(node_lis, ArgMax([k \in 1..Len(node_lis) |-> At(slot, node_lis[k])[t]]))

\* C11: the pair a worker returns for its node list holds at every sample the
\* maximum of the listed nodes' traces and, as owner, the first listed node
\* attaining that maximum.
C11_WorkerPairIsFirstMaximum ==
    \A k \in 1..Len(results) :
        results[k].status = "ok" =>
            \A t \in 1..SampLen :
                LET owner == FirstMaxNode(WorkerLists[k], energy, t)
                IN /\ results[k].cum_net_resp[t] = At(energy, owner)[t]
                   /\ results[k].indeces[t] = owner

-----------------------------------------------------------------------------
(* Grid preparation: the grid read by _read_tt, then the two reductions *)

GridPoints == {<<a, b>> : a \in 0..(MaxNodes \div 2), b \in 0..1}

InitGrid ==
    /\ pc = "grid"
    /\ stations = GridStations
    /\ \E n \in 1..MaxNodes :
          /\ nodes = GridNodes(n)
          /\ lags \in [1..Len(GridStations) -> [1..n -> LagValues]]
    /\ args = NoArgs
    /\ threshold = 0
    /\ StackIdle
    /\ ReduceIdle
    /\ PoolIdle
    /\ DetectIdle
    /\ ReadIdle

Resample ==
    /\ pc = "grid"
    /\ \E mindepth \in DepthBounds, maxdepth \in DepthBounds,
          corners \in SUBSET GridPoints :
          LET r == ResampleGrid(stations, nodes, lags, mindepth, maxdepth, corners)
          IN /\ nodes' = r.nodes
             /\ lags' = r.lags
    /\ args' = [nodes |-> nodes, lags |-> lags]
    /\ pc' = "resampled"
    /\ UNCHANGED <<stations, threshold, stackVars, reduceVars, poolVars, detectVars, readVars>>

RmSimilar ==
    /\ pc \in {"grid", "resampled"}
    /\ Len(nodes) > 0
    /\ \E thr \in ThresholdValues :
          LET r == RmSimilarlags(stations, nodes, lags, thr)
          IN /\ nodes' = r.nodes
             /\ lags' = r.lags
             /\ threshold' = thr
    /\ args' = [nodes |-> nodes, lags |-> lags]
    /\ pc' = "deduped"
    /\ UNCHANGED <<stations, stackVars, reduceVars, poolVars, detectVars, readVars>>

\* nodes[0] and lags.T[0] of an empty grid raise IndexError
RmSimilarEmpty ==
    /\ pc = "resampled"
    /\ Len(nodes) = 0
    /\ pc' = "error"
    /\ UNCHANGED <<stations, gridVars, stackVars, reduceVars, poolVars, detectVars, readVars>>

NextGrid == Resample \/ RmSimilar \/ RmSimilarEmpty

SpecGrid == InitGrid /\ [][NextGrid]_vars

-----------------------------------------------------------------------------
(* Properties of the grid preparation *)

\* L1 moveout distance of the returned nodes a and b
MoveoutL1(lgs, a, b) == SumSeq([s \in 1..Len(lgs) |-> Abs(lgs[s][a] - lgs[s][b])])

\* position of a node in the input grid (grid nodes are distinct)
InputPos(nd) == CHOOSE i \in 1..Len(args.nodes) : args.nodes[i] = nd

\* C3: the node set returned by _rm_similarlags contains node 0, and every two
\* distinct returned nodes are further apart than the threshold in L1 moveout
\* distance.
C3_DedupPairsDistinguishable ==
    pc = "deduped" =>
        /\ nodes[1] = args.nodes[1]
        /\ \A a, b \in 1..Len(nodes) :
              a # b => MoveoutL1(lags, a, b) > threshold

\* the greedy scan over the input grid: node 0, then every node whose L1
\* moveout distance to each node kept before it exceeds thr (1-based positions)
GreedyKept(lgs, n, thr) ==
    LET RECURSIVE Scan(_, _)
        Scan(i, kept) ==
            IF i > n THEN kept
            ELSE IF \A k \in 1..Len(kept) : MoveoutL1(lgs, i, kept[k]) > thr
                 THEN Scan(i + 1, Append(kept, i))
                 ELSE Scan(i + 1, kept)
    IN Scan(2, <<1>>)

\* C12: _rm_similarlags keeps node 0 and, scanning in input order, exactly the
\* nodes whose own moveout distance to every node kept before them exceeds
\* the threshold.
C12_GreedyScanByOwnDistances ==
    pc = "deduped" =>
        nodes = [k \in 1..Len(GreedyKept(args.lags, Len(args.nodes), threshold)) |->
                    args.nodes[GreedyKept(args.lags, Len(args.nodes), threshold)[k]]]

\* C4: after _resample_grid and after _rm_similarlags every station has one
\* lag per output node, the output nodes are input nodes in their input
\* order, and lags'[s][k] is the input lag of station s for the input node
\* that nodes'[k] is.
C4_GridAlignment ==
    pc \in {"resampled", "deduped"} =>
        /\ Len(lags) = Len(stations)
        /\ \A s \in 1..Len(lags) : Len(lags[s]) = Len(nodes)
        /\ \A k \in 1..Len(nodes) : \E i \in 1..Len(args.nodes) : args.nodes[i] = nodes[k]
        /\ \A k, l \in 1..Len(nodes) : k < l => InputPos(nodes[k]) < InputPos(nodes[l])
        /\ \A s \in 1..Len(lags) : \A k \in 1..Len(nodes) :
              lags[s][k] = args.lags[s][InputPos(nodes[k])]

\* a 3-node grid deduplicated to nodes 0 and 2, whose lags differ from node 1's
C4_Witness ==
    /\ pc = "deduped"
    /\ Len(args.nodes) = 3
    /\ Len(nodes) = 2
    /\ \E s \in 1..Len(lags) : args.lags[s][2] # args.lags[s][3]

-----------------------------------------------------------------------------
(* Properties of _node_loop *)

\* the traces (1-based positions in the stream) whose station is in the list
MatchedTraces == {t \in 1..Len(stream) : \E k \in 1..Len(stations) : stations[k] = stream[t].station}

\* the rows of the returned stack that come from a channel of station `name`
RowsOfStation(name) ==
    {r \in 1..Len(ret.energy) : stream[ret.energy[r].trace + 1].station = name}

-----------------------------------------------------------------------------
(* Properties of the out-of-core run *)

WorkerEnded(k) == worker[k].state \in {"done", "IndexError", "IOError"}

\* the reduction workers that loaded or removed slot n in this run
SlotWorkers(n) ==
    {hist[n].loads[x].worker : x \in 1..Len(hist[n].loads)}
        \cup {hist[n].removes[x] : x \in 1..Len(hist[n].removes)}

\* C8: a run in which a stacking or reduction task failed ends in an error;
\* a run that returns a cumulative response folded every node's trace, each
\* from a slot written by this run.
C8_FailedTaskAbortsRun ==
    pc = "reduced" =>
        /\ \A n \in 1..NumNodes : task[n] = "saved"
        /\ \A k \in 1..num_cores : ~WorkerFailed(k)
        /\ \A n \in 1..NumNodes :
              /\ Len(hist[n].loads) >= 1
              /\ \A x \in 1..Len(hist[n].loads) : hist[n].loads[x].fresh

\* C9: every slot written by the stacking phase is loaded once, by one
\* reduction worker, which removes it before it loads its next slot; once the
\* reduction has ended no slot of the run remains.
C9_SlotsConsumedOnce ==
    /\ \A n \in 1..Len(hist) :
          /\ Len(hist[n].loads) <= 1
          /\ Len(hist[n].removes) <= 1
          /\ Cardinality(SlotWorkers(n)) <= 1
    /\ \A k \in 1..Len(worker) : \A n \in 1..Len(hist) :
          (k \in SlotWorkers(n) /\ worker[k].state = "ready") => hist[n].removes = <<k>>
    /\ (/\ pc \in {"reduced", "raised"}
        /\ \A k \in 1..Len(worker) : WorkerEnded(k)
        /\ \A n \in 1..NumNodes : task[n] = "saved")
       => \A n \in 1..NumNodes : Len(hist[n].loads) = 1 /\ ~scratch[n].exists

\* C10: in one run no slot is written by two stacking tasks or touched by two
\* reduction workers, and reduction workers exist (and so read) only once
\* every stacking task has ended.
C10_DisjointSlotsBehindBarrier ==
    /\ \A n \in 1..Len(hist) :
          /\ \A x \in 1..Len(hist[n].writes) : hist[n].writes[x] = n
          /\ Len(hist[n].writes) <= 1
          /\ Cardinality(SlotWorkers(n)) <= 1
          /\ hist[n].loads # <<>> => task[n] \in {"saved", "failed"}
    /\ worker # <<>> => \A n \in 1..NumNodes : task[n] \in {"saved", "failed"}

\* two reduction workers hold a loaded slot at the same time
C10_Witness ==
    /\ pc = "reducing"
    /\ \E k, l \in 1..Len(worker) :
          /\ k # l
          /\ worker[k].state = "loaded"
          /\ worker[l].state = "loaded"
    /\ \E n \in 1..NumNodes : task[n] = "failed"

-----------------------------------------------------------------------------
(* brightness after the reduction: the station check, _find_detections and  *)
(* the conversion of detections to templates                                *)

\* a Python string as the list of its characters
Chars(name) ==
    CASE name = "WVZ" -> <<"W", "V", "Z">>
      [] name = "FOZ" -> <<"F", "O", "Z">>
      [] name = "GCSZ" -> <<"G", "C", "S", "Z">>
      [] name = "A" -> <<"A">>
      [] name = "WVZ2" -> <<"W", "V", "Z", "2">>

\* stream.select(station=station)
SelectStation(strm, station) == SelectSeq(strm, LAMBDA tr : tr.station = station)

\* lines 419-423: realstations += station, for every station with a trace;
\* += extends a list by the items of the right-hand side, and the items of a
\* string are its characters
RealStations(sta, strm) ==
    LET RECURSIVE Loop(_, _)
        Loop(k, acc) ==
            IF k > Len(sta) THEN acc
            ELSE IF Len(SelectStation(strm, sta[k])) > 0
                 THEN Loop(k + 1, acc \o Chars(sta[k]))
                 ELSE Loop(k + 1, acc)
    IN Loop(1, <<>>)

\* np.median
Median2(s) ==
    LET srt == SortSeq(s, LAMBDA a, b : a < b)
        n == Len(s)
    IN IF n % 2 = 1 THEN 2 * srt[(n + 1) \div 2] ELSE srt[n \div 2] + srt[n \div 2 + 1]

\* lines 313-318: whether the value v exceeds thresh, thresh being
\* median(|cnr|)*threshold (MAD), threshold (abs) or sqrt(mean(cnr^2))*threshold
\* (RMS); compared without leaving the integers
AboveThresh(v, cnr, thr, thresh_type) ==
    CASE thresh_type = "MAD" -> 2 * v > Median2([t \in 1..Len(cnr) |-> Abs(cnr[t])]) * thr
      [] thresh_type = "abs" -> v > thr
      [] thresh_type = "RMS" ->
            v * v * Len(cnr) > thr * thr * SumSeq([t \in 1..Len(cnr) |-> cnr[t] * cnr[t]])

\* utils.findpeaks.find_peaks2: the samples above the threshold, highest
\* first, none closer than trig_int to one already taken; (value, index) pairs
FindPeaks2(cnr, thr, thresh_type, trig_int) ==
    LET RECURSIVE Pick(_, _)
        Pick(cand, acc) ==
            IF cand = {} THEN acc
            ELSE LET best == CHOOSE q \in cand :
                                \A r \in cand : cnr[r] < cnr[q] \/ (cnr[r] = cnr[q] /\ r >= q)
                 IN Pick({r \in cand : Abs(r - best) >= trig_int /\ r # best},
                         acc \cup {best})
        picked == Pick({q \in 1..Len(cnr) : AboveThresh(cnr[q], cnr, thr, thresh_type)}, {})
    IN SelectSeq([q \in 1..Len(cnr) |-> <<cnr[q], q - 1>>], LAMBDA pk : pk[2] + 1 \in picked)

\* the text of a node coordinate, as read from the travel-time file, and back
Digits == <<"0", "1", "2", "3", "4", "5", "6", "7", "8", "9">>
CoordStr(c) == Digits[c + 1]
CoordOf(s) == CHOOSE c \in 0..(Len(Digits) - 1) : Digits[c + 1] = s

\* node[0]+'_'+node[1]+'_'+node[2]
TemplateName(node) ==
    <<CoordStr(node[1]), "_", CoordStr(node[2]), "_", CoordStr(node[3])>>

\* str.split('_'): the fields between the underscores
SplitName(name) ==
    LET RECURSIVE Loop(_, _, _)
        Loop(k, fields, cur) ==
            IF k > Len(name) THEN Append(fields, cur)
            ELSE IF name[k] = "_" THEN Loop(k + 1, Append(fields, cur), <<>>)
                 ELSE Loop(k + 1, fields, Append(cur, name[k]))
    IN Loop(1, <<>>, <<>>)

\* lines 535-537: node=(split[0], split[1], split[2])
NodeOfName(name) ==
    LET f == SplitName(name) IN <<CoordOf(f[1][1]), CoordOf(f[2][1]), CoordOf(f[3][1])>>

\* lines 323-330
FindDetections(cnr, peak_nodes, thr, thresh_type, samp_rate, rstations, trig_int) ==
    LET peaks == FindPeaks2(cnr, thr, thresh_type, trig_int)
    IN [k \in 1..Len(peaks) |->
          [template_name |-> TemplateName(At(peak_nodes, peaks[k][2])),
           detect_time   |-> [samples |-> peaks[k][2], samp_rate |-> samp_rate],
           no_chans      |-> Len(rstations),
           detect_val    |-> peaks[k][1],
           threshold     |-> [type |-> thresh_type, value |-> thr],
           typeofdet     |-> "brightness",
           chans         |-> rstations]]

\* list(set(nodesout)), order disregarded
SetOf(s) == {s[k] : k \in 1..Len(s)}

DetectNames == {"WVZ", "A"}
CnrValues == {0, 1, 2}
ThreshTypes == {"MAD", "abs", "RMS"}
MinSeparations == {1, 2}

DetectStreams ==
    {s \in SeqsUpTo([station : StreamNames, data : {<<>>}, sampling_rate : {1}], MaxTraces) :
        s # <<>>}

\* a run that reached line 503: some station has a trace, and the reduction
\* left a response with one owner node per sample
InitDetect ==
    /\ pc = "reduced_all"
    /\ stations \in SeqsUpTo(DetectNames, 2) \ {<<>>}
    /\ stream \in DetectStreams
    /\ \E k \in 1..Len(stations) : Len(SelectStation(stream, stations[k])) > 0
    /\ \E n \in 1..MaxNodes :
          /\ nodes = GridNodes(n)
          /\ peak_idx \in [1..SampLen -> 0..(n - 1)]
    /\ cum_net_resp \in [1..SampLen -> CnrValues]
    /\ lags = <<>> /\ args = NoArgs /\ threshold = 0
    /\ node_lags = <<>> /\ ret = NoRet
    /\ energy = <<>> /\ cores = 0 /\ cpu_count = 0 /\ num_cores = 0
    /\ indeces = <<>> /\ results = <<>>
    /\ PoolIdle
    /\ DetectIdle
    /\ ReadIdle

\* lines 418-424 and 519-522
CallFindDetections ==
    /\ pc = "reduced_all"
    /\ realstations' = RealStations(stations, stream)
    /\ \E thr \in ThresholdValues, thresh_type \in ThreshTypes, trig_int \in MinSeparations :
          detections' = FindDetections(cum_net_resp, Select(nodes, peak_idx), thr,
                                       thresh_type, stream[1].sampling_rate,
                                       realstations', trig_int)
    /\ pc' = "converting"
    /\ UNCHANGED <<coherant, templates, nodesout, stations, gridVars, stackVars,
                   reduceVars, poolVars, readVars>>

\* lines 529-578, one pass of the loop: the node goes to nodesout, the template
\* is cut, and it is kept if coherance(template) > coherance_thresh
ConvertDetection ==
    /\ pc = "converting"
    /\ Len(coherant) < Len(detections)
    /\ LET detection == detections[Len(coherant) + 1]
           node == NodeOfName(detection.template_name)
       IN /\ nodesout' = Append(nodesout, node)
          /\ \E is_coherant \in BOOLEAN :
                /\ coherant' = Append(coherant, is_coherant)
                /\ templates' = IF is_coherant
                                THEN Append(templates, [detection |-> Len(coherant), node |-> node])
                                ELSE templates
    /\ UNCHANGED <<pc, realstations, detections, stations, gridVars, stackVars,
                   reduceVars, poolVars, readVars>>

\* lines 579-580
ReturnTemplates ==
    /\ pc = "converting"
    /\ Len(coherant) = Len(detections)
    /\ nodesout' = SetOf(nodesout)
    /\ pc' = "returned"
    /\ UNCHANGED <<realstations, detections, coherant, templates, stations, gridVars,
                   stackVars, reduceVars, poolVars, readVars>>

NextDetect == CallFindDetections \/ ConvertDetection \/ ReturnTemplates

SpecDetect == InitDetect /\ [][NextDetect]_vars

-----------------------------------------------------------------------------
(* Properties of the detection stage *)

\* the stations of the list that have a channel, one entry each, in list order
StationsWithChannel ==
    SelectSeq(stations, LAMBDA s : Len(SelectStation(stream, s)) > 0)

\* C6: every Detection carries the number of stations of the station list
\* that have a channel in the waveform set, and the list of exactly those
\* station names.
C6_DetectionStations ==
    pc \in {"converting", "returned"} =>
        \A d \in 1..Len(detections) :
            /\ detections[d].no_chans = Len(StationsWithChannel)
            /\ detections[d].chans = StationsWithChannel

\* C7: the returned node set holds a node if and only if a detection at that
\* node gave a coherent template, and the returned templates are those of the
\* accepted candidates.
C7_NodesOfAcceptedTemplates ==
    pc = "returned" =>
        /\ nodesout = {NodeOfName(detections[d].template_name) :
                          d \in {x \in 1..Len(detections) : coherant[x]}}
        /\ Len(templates) = Cardinality({x \in 1..Len(detections) : coherant[x]})
        /\ \A k \in 1..Len(templates) : coherant[templates[k].detection + 1]

-----------------------------------------------------------------------------
(* _read_tt *)

\* a file <prefix>.<phase>.<station>.<kind>.csv of the travel-time directory
GridFile(prefix, ph, station, kind) ==
    [prefix |-> prefix, phase |-> ph, station |-> station, kind |-> kind]

\* whether the string a starts the string b
StartsWith(b, a) ==
    /\ Len(Chars(a)) <= Len(Chars(b))
    /\ SubSeq(Chars(b), 1, Len(Chars(a))) = Chars(a)

\* line 91: glob.glob(path+'*.'+phase+'.'+station+'.time.csv')
GlobTime(dir, ph, station) ==
    {f \in DOMAIN dir : f.phase = ph /\ f.station = station /\ f.kind = "time"}

\* line 92: glob.glob(path+'*.'+phase+'.'+station+'*.csv')
GlobAny(dir, ph, station) ==
    {f \in DOMAIN dir : f.phase = ph /\ StartsWith(f.station, station)}

\* the lists glob.glob may return for a set of matches: any order
Listings(S) ==
    {s \in [1..Cardinality(S) -> S] : \A a, b \in 1..Cardinality(S) : s[a] = s[b] => a = b}

\* lines 90-91: gridfiles after the loop, for each order glob can answer in
GridFiles(dir, ph, sta) ==
    LET RECURSIVE Loop(_)
        Loop(k) ==
            IF k = 0 THEN {<<>>}
            ELSE {pre \o found : pre \in Loop(k - 1),
                                 found \in Listings(GlobTime(dir, ph, sta[k]))}
    IN Loop(Len(sta))

\* lines 90-93: stations_out
StationsOut(dir, ph, sta) ==
    SelectSeq(sta, LAMBDA s : GlobAny(dir, ph, s) # {})

PsRatioNum == 168
PsRatioDen == 100

Minimum(s) == CHOOSE m \in {s[k] : k \in 1..Len(s)} : \A k \in 1..Len(s) : m <= s[k]

\* lines 108-114: traveltime/1.68 or traveltime*1.68 when the phases differ,
\* then traveltime-min(traveltime); a lag is the fraction num/den
LagRow(traveltime, ph, phout) ==
    LET rel == [k \in 1..Len(traveltime) |-> traveltime[k] - Minimum(traveltime)]
    IN [k \in 1..Len(traveltime) |->
          IF ph = phout THEN [num |-> rel[k], den |-> 1]
          ELSE IF ph = "S" THEN [num |-> PsRatioDen * rel[k], den |-> PsRatioNum]
          ELSE [num |-> PsRatioNum * rel[k], den |-> PsRatioDen]]

Unbound == [bound |-> FALSE, rows |-> <<>>]

TravelTimes == {<<1, 3>>, <<2, 2>>}
Phases == {"P", "S"}
RequestNames == {"WVZ", "FOZ"}
DirFiles ==
    {GridFile("a", "P", "WVZ", "time"), GridFile("b", "P", "WVZ", "time"),
     GridFile("a", "P", "WVZ", "angle"), GridFile("a", "P", "FOZ", "time"),
     GridFile("a", "P", "WVZ2", "time"), GridFile("a", "S", "FOZ", "time")}

InitRead ==
    /\ pc = "read_tt"
    /\ stations \in {s \in SeqsUpTo(RequestNames, Cardinality(RequestNames)) :
                        \A a, b \in 1..Len(s) : s[a] = s[b] => a = b}
    /\ path \in UNION {[S -> TravelTimes] : S \in SUBSET DirFiles}
    /\ phase \in Phases
    /\ phaseout \in Phases
    /\ gridfiles = <<>> /\ stations_out = <<>> /\ allnodes = <<>>
    /\ alllags = Unbound
    /\ GridIdle
    /\ StackIdle
    /\ ReduceIdle
    /\ PoolIdle
    /\ DetectIdle

\* lines 88-96, some station found
LocateFiles ==
    /\ pc = "read_tt"
    /\ StationsOut(path, phase, stations) # <<>>
    /\ gridfiles' \in GridFiles(path, phase, stations)
    /\ stations_out' = StationsOut(path, phase, stations)
    /\ pc' = "reading"
    /\ UNCHANGED <<path, phase, phaseout, allnodes, alllags, stations, gridVars,
                   stackVars, reduceVars, poolVars, detectVars>>

\* lines 94-96: sys.exit() when stations_out is empty
NoSlownessFiles ==
    /\ pc = "read_tt"
    /\ StationsOut(path, phase, stations) = <<>>
    /\ pc' = "exit"
    /\ UNCHANGED <<readVars, stations, gridVars, stackVars, reduceVars, poolVars,
                   detectVars>>

\* lines 98-122, one pass of the loop: the next file of gridfiles becomes one
\* more row of alllags, and its nodes become allnodes
ReadGridFile ==
    /\ pc = "reading"
    /\ Len(alllags.rows) < Len(gridfiles)
    /\ LET gridfile == gridfiles[Len(alllags.rows) + 1]
       IN /\ alllags' = [bound |-> TRUE,
                         rows  |-> Append(alllags.rows,
                                          LagRow(path[gridfile], phase, phaseout))]
          /\ allnodes' = GridNodes(Len(path[gridfile]))
    /\ UNCHANGED <<pc, path, phase, phaseout, gridfiles, stations_out, stations,
                   gridVars, stackVars, reduceVars, poolVars, detectVars>>

\* line 123
ReturnReadTT ==
    /\ pc = "reading"
    /\ Len(alllags.rows) = Len(gridfiles)
    /\ pc' = IF alllags.bound THEN "returned_tt" ELSE "UnboundLocalError"
    /\ UNCHANGED <<readVars, stations, gridVars, stackVars, reduceVars, poolVars,
                   detectVars>>

NextRead == LocateFiles \/ NoSlownessFiles \/ ReadGridFile \/ ReturnReadTT

SpecRead == InitRead /\ [][NextRead]_vars

-----------------------------------------------------------------------------
(* Properties of _read_tt *)

\* the requested stations that have a lag file, in the order requested
StationsWithLagFile ==
    SelectSeq(stations, LAMBDA s : GlobTime(path, phase, s) # {})

\* C13: _read_tt returns the requested stations that have a lag file and one
\* lag row per returned station, row k read from the lag file of returned
\* station k; it does not return when no requested station has a lag file.
C13_OneLagRowPerStation ==
    pc = "returned_tt" =>
        /\ StationsWithLagFile # <<>>
        /\ stations_out = StationsWithLagFile
        /\ Len(alllags.rows) = Len(stations_out)
        /\ \A k \in 1..Len(alllags.rows) :
              \E f \in GlobTime(path, phase, stations_out[k]) :
                  alllags.rows[k] = LagRow(path[f], phase, phaseout)

=============================================================================
